---- MODULE Spec2Model ----
(***************************************************************************)
(* A model of the text-normalisation and record-sanitisation pipeline of   *)
(* jsonl_to_parquet.py and of the sharded, resumable ingestion of          *)
(* create_dataset_markdown.py.  A string is a sequence of code points.     *)
(* The character universe of the model is Latin-1 (0..255), the Hebrew     *)
(* block and the code points windows-1255 decodes to; the character        *)
(* classes below are Python's classes restricted to that universe.         *)
(***************************************************************************)
EXTENDS Integers, Sequences, FiniteSets, TLC

VARIABLES text, nfrag, op, arg, result, result2,
          input, all_records, skipped_count, df, pc,
          parts, mainpc, last_part, already_processed, files_to_process,
          pending, current_part_num, count_in_current_chunk,
          output_file_handle

vars == <<text, nfrag, op, arg, result, result2,
          input, all_records, skipped_count, df, pc,
          parts, mainpc, last_part, already_processed, files_to_process,
          pending, current_part_num, count_in_current_chunk,
          output_file_handle>>

textVars == <<text, nfrag, op, arg, result, result2>>
pipeVars == <<input, all_records, skipped_count, df, pc>>
\* the output directory and the locals of main() of create_dataset_markdown.py
ingestVars == <<parts, mainpc, last_part, already_processed, files_to_process,
                pending, current_part_num, count_in_current_chunk,
                output_file_handle>>

(***************************************************************************)
(* Bounds of the model.                                                    *)
(***************************************************************************)
\* fragments appended to a text under construction
MaxFrags == 5
\* largest cid_threshold passed explicitly to process_text_field
MaxThreshold == 2
\* input lines of one conversion batch
MaxLines == 3
\* files of the source tree
MaxFiles == 4
\* part files in the output directory
MaxParts == 3
\* records of one part file; the source has 500 (CHUNK_SIZE,
\* create_dataset_markdown.py l.36), scaled down so that parts fill up
CHUNK_SIZE == 2

(***************************************************************************)
(* Characters.                                                             *)
(***************************************************************************)
NL == 10
SPACE == 32
LPAREN == 40
RPAREN == 41
PLUS == 43
HYPHEN == 45
DOT == 46
COLON == 58
AT == 64
\* the first and the last letter of the regex range [א-ת]
ALEF == 1488
TAV == 1514

IsHebrewLetter(c) == c \in ALEF..TAV

IsDigit(c) == c \in 48..57

IsAsciiLetter(c) == c \in 65..90 \/ c \in 97..122

\* \w of Python's re on str, within the character universe
IsWordChar(c) ==
    \/ IsDigit(c)
    \/ IsAsciiLetter(c)
    \/ c = 95
    \/ c \in {170, 178, 179, 181, 185, 186, 188, 189, 190}
    \/ c \in 192..214
    \/ c \in 216..246
    \/ c \in 248..255
    \/ IsHebrewLetter(c)

\* str.isspace, the characters str.strip() removes
IsSpace(c) == c \in 9..13 \/ c \in 28..32 \/ c = 133 \/ c = 160

\* ם ן ץ ף ך
FINAL_LETTERS == {1501, 1503, 1509, 1507, 1498}

\* כ מ נ פ צ
NON_FINAL_EQUIVALENTS == {1499, 1502, 1504, 1508, 1510}

(***************************************************************************)
(* Generic string helpers.                                                 *)
(***************************************************************************)
\* s.startswith(pat, i - 1): pat occurs in s at position i
OccursAt(s, pat, i) ==
    /\ i >= 1
    /\ i + Len(pat) - 1 <= Len(s)
    /\ \A k \in 1..Len(pat) : s[i + k - 1] = pat[k]

\* text[::-1]
Reverse(s) == [k \in 1..Len(s) |-> s[Len(s) + 1 - k]]

\* \b between s[k] and s[k+1] (k = 0 is the start, k = Len(s) the end)
WordBoundary(s, k) ==
    LET before == k >= 1 /\ IsWordChar(s[k])
        after  == k + 1 <= Len(s) /\ IsWordChar(s[k + 1])
    IN  before # after

\* str.strip()
RECURSIVE LStrip(_)
LStrip(s) == IF s # <<>> /\ IsSpace(Head(s)) THEN LStrip(Tail(s)) ELSE s

Strip(s) == Reverse(LStrip(Reverse(LStrip(s))))

(***************************************************************************)
(* _pre_process_text: re.sub(r'(?<=[א-ת])\n(?=[א-ת])', '', text)           *)
(***************************************************************************)
\* a plausible slip: the look-ahead is forgotten
JoinMatchAtNoLookahead(s, i) ==
    /\ s[i] = NL
    /\ i > 1 /\ IsHebrewLetter(s[i - 1])

\* the pattern matches the single character at position i
JoinMatchAt(s, i) ==
    /\ s[i] = NL
    /\ i > 1 /\ IsHebrewLetter(s[i - 1])
    /\ i < Len(s) /\ IsHebrewLetter(s[i + 1])

RECURSIVE JoinFrom(_, _)
JoinFrom(s, i) ==
    IF i > Len(s) THEN <<>>
    ELSE IF JoinMatchAt(s, i) THEN JoinFrom(s, i + 1)
    ELSE <<s[i]>> \o JoinFrom(s, i + 1)

pre_process_text(t) == JoinFrom(t, 1)

(***************************************************************************)
(* fix_hebrew_encoding: text.encode('latin-1').decode('windows-1255')      *)
(***************************************************************************)
\* str.encode('latin-1') succeeds
Latin1Encodable(s) == \A k \in 1..Len(s) : s[k] \in 0..255

\* bytes windows-1255 leaves unassigned (bytes.decode raises on them)
Cp1255Undefined ==
    {129, 138, 154, 202, 251, 252, 255} \cup (140..144) \cup (156..159) \cup (217..223)

\* the code point windows-1255 assigns to byte b
Cp1255Decode(b) ==
    CASE b \in 0..127 -> b
      [] b = 128 -> 8364
      [] b = 130 -> 8218
      [] b = 131 -> 402
      [] b = 132 -> 8222
      [] b = 133 -> 8230
      [] b \in 134..135 -> b + 8090
      [] b = 136 -> 710
      [] b = 137 -> 8240
      [] b = 139 -> 8249
      [] b \in 145..146 -> b + 8071
      [] b \in 147..148 -> b + 8073
      [] b = 149 -> 8226
      [] b \in 150..151 -> b + 8061
      [] b = 152 -> 732
      [] b = 153 -> 8482
      [] b = 155 -> 8250
      [] b = 164 -> 8362
      [] b = 170 -> 215
      [] b = 186 -> 247
      [] b \in 160..191 -> b
      [] b \in 192..211 -> b + 1264
      [] b \in 212..216 -> b + 1308
      [] b \in 224..250 -> b + 1264
      [] b \in 253..254 -> b + 7953
      [] OTHER -> b

\* a plausible slip: an undecodable byte is passed through instead of raising
Cp1255DecodableLax(s) == TRUE

\* bytes.decode('windows-1255') succeeds
Cp1255Decodable(s) == \A k \in 1..Len(s) : s[k] \notin Cp1255Undefined

fix_hebrew_encoding(t) ==
    IF Latin1Encodable(t) /\ Cp1255Decodable(t)
    THEN [k \in 1..Len(t) |-> Cp1255Decode(t[k])]
    ELSE t

\* the characters windows-1255 can represent (the range of its decoding)
Cp1255Representable(c) ==
    \E b \in (0..255) \ Cp1255Undefined : Cp1255Decode(b) = c

(***************************************************************************)
(* detect_and_fix_reversed_hebrew                                          *)
(***************************************************************************)
\* [word for word in re.split(r'[^א-ת]+', text) if word], scanning from
\* position i with the word under construction cur
RECURSIVE SplitWords(_, _, _)
SplitWords(s, i, cur) ==
    IF i > Len(s) THEN (IF cur = <<>> THEN <<>> ELSE <<cur>>)
    ELSE IF IsHebrewLetter(s[i]) THEN SplitWords(s, i + 1, Append(cur, s[i]))
    ELSE (IF cur = <<>> THEN <<>> ELSE <<cur>>) \o SplitWords(s, i + 1, <<>>)

\* the evidence one word adds to reversed_evidence_score
WordEvidence(word) ==
    IF Len(word) > 1
    THEN (IF word[1] \in FINAL_LETTERS THEN 1 ELSE 0)
         + (IF word[Len(word)] \in NON_FINAL_EQUIVALENTS THEN 1 ELSE 0)
    ELSE 0

RECURSIVE EvidenceScore(_)
EvidenceScore(words) ==
    IF words = <<>> THEN 0
    ELSE WordEvidence(Head(words)) + EvidenceScore(Tail(words))

\* a plausible slip: the decision of the earlier revision of the heuristic
\* (score >= 2 and ratio > 0.05, or ratio > 0.2)
is_likely_reversed_v1(score, nwords) ==
    \/ score >= 2 /\ 100 * score > 5 * nwords
    \/ 10 * score > 2 * nwords

\* (score >= 3 and ratio > 0.15) or ratio > 0.4, ratio = score / nwords
is_likely_reversed(score, nwords) ==
    \/ score >= 3 /\ 100 * score > 15 * nwords
    \/ 10 * score > 4 * nwords

\* the decision taken on a text: words exist and the score is high enough
DecidesReversed(t) ==
    LET words == SplitWords(t, 1, <<>>)
    IN  /\ words # <<>>
        /\ is_likely_reversed(EvidenceScore(words), Len(words))

\* a plausible slip: each word is reversed in place instead of the string
RECURSIVE ReverseWordsFrom(_, _, _)
ReverseWordsFrom(s, i, cur) ==
    IF i > Len(s) THEN Reverse(cur)
    ELSE IF IsHebrewLetter(s[i]) THEN ReverseWordsFrom(s, i + 1, Append(cur, s[i]))
    ELSE Reverse(cur) \o <<s[i]>> \o ReverseWordsFrom(s, i + 1, <<>>)

ReversePerWord(t) == IF DecidesReversed(t) THEN ReverseWordsFrom(t, 1, <<>>) ELSE t

detect_and_fix_reversed_hebrew(t) == IF DecidesReversed(t) THEN Reverse(t) ELSE t

(***************************************************************************)
(* process_text_field                                                      *)
(***************************************************************************)
\* JSON values carry their type: None (null, or an absent key), and a str
NoneValue == [type |-> "null", val |-> <<>>]

Some(s) == [type |-> "str", val |-> s]

\* '(cid:'
CID_PREFIX == <<LPAREN, 99, 105, 100, COLON>>

\* str.count(pat): the non-overlapping occurrences of pat from position i
RECURSIVE CountFrom(_, _, _)
CountFrom(s, pat, i) ==
    IF i + Len(pat) - 1 > Len(s) THEN 0
    ELSE IF OccursAt(s, pat, i) THEN 1 + CountFrom(s, pat, i + Len(pat))
    ELSE CountFrom(s, pat, i + 1)

\* the end of the greedy run \d+ starting at position i (i - 1 if none)
RECURSIVE DigitsEnd(_, _)
DigitsEnd(s, i) ==
    IF i <= Len(s) /\ IsDigit(s[i]) THEN DigitsEnd(s, i + 1) ELSE i - 1

\* the last position of the match of r'\(cid:\d+\)' starting at i, 0 if none
CidMatchEnd(s, i) ==
    IF OccursAt(s, CID_PREFIX, i)
    THEN LET e == DigitsEnd(s, i + 5)
         IN  IF e >= i + 5 /\ e + 1 <= Len(s) /\ s[e + 1] = RPAREN
             THEN e + 1 ELSE 0
    ELSE 0

\* re.sub(r'\(cid:\d+\)', '', text) from position i
RECURSIVE StripCidFrom(_, _)
StripCidFrom(s, i) ==
    IF i > Len(s) THEN <<>>
    ELSE IF CidMatchEnd(s, i) # 0 THEN StripCidFrom(s, CidMatchEnd(s, i) + 1)
    ELSE <<s[i]>> \o StripCidFrom(s, i + 1)

\* a plausible slip: the threshold itself is still tolerated one marker later
TooCorruptedOffByOne(t, cid_threshold) ==
    CountFrom(t, CID_PREFIX, 1) > cid_threshold + 1

\* text.count('(cid:') > cid_threshold
TooCorrupted(t, cid_threshold) ==
    CountFrom(t, CID_PREFIX, 1) > cid_threshold

process_text_field(t, cid_threshold) ==
    IF TooCorrupted(t, cid_threshold) THEN NoneValue
    ELSE Some(detect_and_fix_reversed_hebrew(
                 fix_hebrew_encoding(
                     pre_process_text(StripCidFrom(t, 1)))))

\* the number of matches of r'\(cid:\d+\)' in s from position i
\* (len(re.findall(...)))
RECURSIVE MarkerCountFrom(_, _)
MarkerCountFrom(s, i) ==
    IF i > Len(s) THEN 0
    ELSE IF CidMatchEnd(s, i) # 0 THEN 1 + MarkerCountFrom(s, CidMatchEnd(s, i) + 1)
    ELSE MarkerCountFrom(s, i + 1)

MarkerCount(s) == MarkerCountFrom(s, 1)

(***************************************************************************)
(* anonymize_record                                                        *)
(***************************************************************************)
Max(S) == CHOOSE x \in S : \A y \in S : y <= x

\* [A-Za-z0-9._%+-]
IsEmailLocal(c) == IsAsciiLetter(c) \/ IsDigit(c) \/ c \in {DOT, 95, 37, PLUS, HYPHEN}

\* [A-Za-z0-9.-]
IsEmailDomain(c) == IsAsciiLetter(c) \/ IsDigit(c) \/ c \in {DOT, HYPHEN}

\* [A-Z|a-z]
IsEmailTld(c) == IsAsciiLetter(c) \/ c = 124

\* the last position of the greedy run [A-Za-z0-9._%+-]+ that starts at
\* position i (i - 1 if there is none)
EmailLocalEnd(s, i) ==
    LET E == {e \in i..Len(s) : \A j \in i..e : IsEmailLocal(s[j])}
    IN  IF E = {} THEN i - 1 ELSE Max(E)

\* the last position of the longest run [A-Za-z0-9.-]+ that starts at
\* position i (i - 1 if there is none)
EmailDomainEnd(s, i) ==
    LET E == {e \in i..Len(s) : \A j \in i..e : IsEmailDomain(s[j])}
    IN  IF E = {} THEN i - 1 ELSE Max(E)

\* the last position of the greedy [A-Z|a-z]{2,7}\b after the dot at p, 0 if none
EmailTldEnd(s, p) ==
    LET K == {k \in 2..7 : /\ p + k <= Len(s)
                           /\ \A j \in (p + 1)..(p + k) : IsEmailTld(s[j])
                           /\ WordBoundary(s, p + k)}
    IN  IF K = {} THEN 0 ELSE p + Max(K)

\* the last position of the match of EMAIL_REGEX starting at i, 0 if none:
\* the local part is the whole run before '@', the domain is the longest one
\* that leaves a dot and a top-level part behind it
EmailMatchEnd(s, i) ==
    LET a == EmailLocalEnd(s, i)
        d == EmailDomainEnd(s, a + 2)
        P == {p \in (a + 3)..(d + 1) :
                 p <= Len(s) /\ s[p] = DOT /\ EmailTldEnd(s, p) # 0}
    IN  IF /\ i <= Len(s)
           /\ WordBoundary(s, i - 1)
           /\ a >= i
           /\ a + 1 <= Len(s) /\ s[a + 1] = AT
           /\ P # {}
        THEN EmailTldEnd(s, Max(P))
        ELSE 0

\* the last position of the match of PHONE_REGEX starting at i, 0 if none
PhoneMatchEnd(s, i) ==
    LET \* (?:(?:\+972-?)|0): the position after the prefix, 0 if none
        p0 == IF OccursAt(s, <<PLUS, 57, 55, 50>>, i)
              THEN (IF i + 4 <= Len(s) /\ s[i + 4] = HYPHEN THEN i + 5 ELSE i + 4)
              ELSE IF i <= Len(s) /\ s[i] = 48 THEN i + 1
              ELSE 0
        \* (?:[23489]|5[0-9]|7[0-9]): the position after the area code
        p1 == IF p0 = 0 \/ p0 > Len(s) THEN 0
              ELSE IF s[p0] \in {50, 51, 52, 56, 57} THEN p0 + 1
              ELSE IF s[p0] \in {53, 55} /\ p0 + 1 <= Len(s) /\ IsDigit(s[p0 + 1])
                   THEN p0 + 2
              ELSE 0
        \* -?
        p2 == IF p1 = 0 THEN 0
              ELSE IF p1 <= Len(s) /\ s[p1] = HYPHEN THEN p1 + 1
              ELSE p1
    IN  IF /\ i <= Len(s)
           /\ WordBoundary(s, i - 1)
           /\ p2 # 0
           /\ p2 + 6 <= Len(s)
           /\ \A j \in p2..(p2 + 6) : IsDigit(s[j])
           /\ WordBoundary(s, p2 + 6)
        THEN p2 + 6
        ELSE 0

\* "[EMAIL_REMOVED]"
EMAIL_REMOVED == <<91, 69, 77, 65, 73, 76, 95, 82, 69, 77, 79, 86, 69, 68, 93>>

\* "[PHONE_REMOVED]"
PHONE_REMOVED == <<91, 80, 72, 79, 78, 69, 95, 82, 69, 77, 79, 86, 69, 68, 93>>

\* re.sub(EMAIL_REGEX, "[EMAIL_REMOVED]", value) from position i
RECURSIVE SubEmailFrom(_, _)
SubEmailFrom(s, i) ==
    IF i > Len(s) THEN <<>>
    ELSE IF EmailMatchEnd(s, i) # 0
         THEN EMAIL_REMOVED \o SubEmailFrom(s, EmailMatchEnd(s, i) + 1)
    ELSE <<s[i]>> \o SubEmailFrom(s, i + 1)

\* re.sub(PHONE_REGEX, "[PHONE_REMOVED]", sanitized_value) from position i
RECURSIVE SubPhoneFrom(_, _)
SubPhoneFrom(s, i) ==
    IF i > Len(s) THEN <<>>
    ELSE IF PhoneMatchEnd(s, i) # 0
         THEN PHONE_REMOVED \o SubPhoneFrom(s, PhoneMatchEnd(s, i) + 1)
    ELSE <<s[i]>> \o SubPhoneFrom(s, i + 1)

Sanitize(value) == SubPhoneFrom(SubEmailFrom(value, 1), 1)

\* a plausible slip: only the text of a record is sanitised
SanitizedKeyTextOnly(record, key) == key = "text" /\ record[key].type = "str"

\* isinstance(value, str), for the value under key
SanitizedKey(record, key) == record[key].type = "str"

anonymize_record(record) ==
    [key \in DOMAIN record |->
        IF SanitizedKey(record, key)
        THEN Some(Sanitize(record[key].val))
        ELSE record[key]]

\* re.search(EMAIL_REGEX, s), re.search(PHONE_REGEX, s)
HasEmail(s) == \E i \in 1..Len(s) : EmailMatchEnd(s, i) # 0

HasPhone(s) == \E i \in 1..Len(s) : PhoneMatchEnd(s, i) # 0

(***************************************************************************)
(* convert_jsonl_to_parquet                                                *)
(***************************************************************************)
\* a dict value
Dict(d) == [type |-> "dict", val |-> d]

\* one line of a .jsonl file: a JSON object, a JSON value that is no object
\* (record.get raises), or text json.loads rejects
ObjectLine(t, src, meta) ==
    [kind |-> "object",
     rec  |-> [text |-> t, source |-> Some(src), metadata |-> Dict(meta)]]

ScalarLine == [kind |-> "scalar", rec |-> <<>>]

MalformedLine == [kind |-> "malformed", rec |-> <<>>]

\* s repeated n times
RECURSIVE Repeat(_, _)
Repeat(s, n) == IF n = 0 THEN <<>> ELSE s \o Repeat(s, n - 1)

\* "user@example.com" and "0501234567"
USER_EMAIL == <<117, 115, 101, 114, 64, 101, 120, 97, 109, 112, 108, 101, 46, 99, 111, 109>>

USER_PHONE == <<48, 53, 48, 49, 50, 51, 52, 53, 54, 55>>

\* "(cid:1)"
CID_MARKER == CID_PREFIX \o <<49, RPAREN>>

\* the default of the parameter cid_threshold
DEFAULT_CID_THRESHOLD == 10

\* the lines the input files are made of
InputLines ==
    << \* {"text": "a", "source": "x", "metadata": {}}
       ObjectLine(Some(<<97>>), <<120>>, <<>>),
       \* {"text": "b", "source": "y", "metadata": {"title": "b"}}
       ObjectLine(Some(<<98>>), <<121>>, [title |-> Some(<<98>>)]),
       \* {"text": "a", "source": "z", "metadata": {}}
       ObjectLine(Some(<<97>>), <<122>>, <<>>),
       \* {"text": "(cid:1) a", "source": "w", "metadata": {}}
       ObjectLine(Some(CID_MARKER \o <<SPACE, 97>>), <<119>>, <<>>),
       \* {"text": "(cid:1) ", "source": "v", "metadata": {}}
       ObjectLine(Some(CID_MARKER \o <<SPACE>>), <<118>>, <<>>),
       \* a text of 11 markers
       ObjectLine(Some(Repeat(CID_MARKER, DEFAULT_CID_THRESHOLD + 1) \o <<97>>),
                  <<117>>, <<>>),
       \* a text of 11 fragments "(cid:" that are no markers
       ObjectLine(Some(Repeat(CID_PREFIX, DEFAULT_CID_THRESHOLD + 1) \o <<97>>),
                  <<116>>, <<>>),
       \* {"text": "user@example.com 0501234567",
       \*  "source": "user@example.com/s",
       \*  "metadata": {"author": "user@example.com"}}
       ObjectLine(Some(USER_EMAIL \o <<SPACE>> \o USER_PHONE),
                  USER_EMAIL \o <<47, 115>>,
                  [author |-> Some(USER_EMAIL)]),
       \* {"text": null, "source": "n", "metadata": {}}
       ObjectLine(NoneValue, <<110>>, <<>>),
       \* [1, 2]
       ScalarLine,
       \* {"text": "a
       MalformedLine >>

\* record.get('text')
GetText(record) == IF "text" \in DOMAIN record THEN record["text"] ELSE NoneValue

\* process_text_field(text_content) with the default threshold; a value that
\* is no str is returned as it is
ProcessTextValue(v) ==
    IF v.type # "str" THEN v ELSE process_text_field(v.val, DEFAULT_CID_THRESHOLD)

\* an except clause that would count the line as skipped
ExceptHandlerCounting(records, skipped) ==
    [records |-> records, skipped |-> skipped + 1]

\* the except clauses: a message is printed, the loop goes on to the next line
ExceptHandler(records, skipped) ==
    [records |-> records, skipped |-> skipped]

\* the body of the try block for one line: (all_records, skipped_count) after it
ProcessLine(line, records, skipped) ==
    IF line.kind # "object"
    THEN \* json.JSONDecodeError, or the AttributeError of record.get
         ExceptHandler(records, skipped)
    ELSE LET processed_text == ProcessTextValue(GetText(line.rec))
         IN  IF processed_text = NoneValue
             THEN [records |-> records, skipped |-> skipped + 1]
             ELSE [records |->
                      Append(records,
                             anonymize_record(
                                 [line.rec EXCEPT !["text"] = processed_text])),
                   skipped |-> skipped]

\* pd.DataFrame(all_records): the rows with their index
DataFrame(records) == [k \in 1..Len(records) |-> [idx |-> k, row |-> records[k]]]

\* 'text' in df.columns
HasTextColumn(rows) == \E k \in 1..Len(rows) : "text" \in DOMAIN rows[k].row

NotNaText(r) == GetText(r.row) # NoneValue

\* a plausible slip: the text is compared with '' without being stripped
NotBlankTextNoStrip(r) == r.row["text"].val # <<>>

\* df['text'].str.strip() != ''
NotBlankText(r) == Strip(r.row["text"].val) # <<>>

\* a plausible slip: keep='last'
IsDuplicateKeepLast(rows, i) ==
    \E j \in (i + 1)..Len(rows) : rows[j].row["text"] = rows[i].row["text"]

\* DataFrame.duplicated(subset=['text'], keep='first') for row i
IsDuplicate(rows, i) ==
    \E j \in 1..(i - 1) : rows[j].row["text"] = rows[i].row["text"]

\* df.drop_duplicates(subset=['text'], keep='first') from row i
RECURSIVE DropDuplicatesFrom(_, _)
DropDuplicatesFrom(rows, i) ==
    IF i > Len(rows) THEN <<>>
    ELSE IF IsDuplicate(rows, i) THEN DropDuplicatesFrom(rows, i + 1)
    ELSE <<rows[i]>> \o DropDuplicatesFrom(rows, i + 1)

\* lines 176-188: the frame written to the Parquet file
Deduplicate(records) ==
    LET frame == DataFrame(records)
    IN  IF HasTextColumn(frame)
        THEN LET initial_count == Len(frame)
                 kept == SelectSeq(SelectSeq(frame, NotNaText), NotBlankText)
             IN  IF initial_count > 1 THEN DropDuplicatesFrom(kept, 1) ELSE kept
        ELSE frame

\* one iteration of the loop over the lines of the input files
ReadLine ==
    /\ pc = "reading"
    /\ Len(input) < MaxLines
    /\ \E n \in 1..Len(InputLines) :
          LET line == InputLines[n]
              after == ProcessLine(line, all_records, skipped_count)
          IN  /\ input' = Append(input, line)
              /\ all_records' = after.records
              /\ skipped_count' = after.skipped
    /\ UNCHANGED <<df, pc>>
    /\ UNCHANGED textVars
    /\ UNCHANGED ingestVars

\* the input is exhausted and nothing was collected: no file is written
FinishEmpty ==
    /\ pc = "reading"
    /\ all_records = <<>>
    /\ pc' = "done"
    /\ UNCHANGED <<input, all_records, skipped_count, df>>
    /\ UNCHANGED textVars
    /\ UNCHANGED ingestVars

\* the input is exhausted: deduplicate and write the Parquet file
FinishWrite ==
    /\ pc = "reading"
    /\ all_records # <<>>
    /\ df' = Deduplicate(all_records)
    /\ pc' = "written"
    /\ UNCHANGED <<input, all_records, skipped_count>>
    /\ UNCHANGED textVars
    /\ UNCHANGED ingestVars

TextIdle ==
    /\ text = <<>> /\ nfrag = 0 /\ op = "" /\ arg = 0
    /\ result = NoneValue /\ result2 = NoneValue

PipeIdle ==
    /\ input = <<>> /\ all_records = <<>> /\ skipped_count = 0
    /\ df = <<>> /\ pc = "reading"

\* no part file yet, main() not started
IngestIdle ==
    /\ parts = <<>> /\ mainpc = "idle"
    /\ last_part = 0 /\ already_processed = {}
    /\ files_to_process = {} /\ pending = {}
    /\ current_part_num = 0 /\ count_in_current_chunk = 0
    /\ output_file_handle = <<>>

Init == TextIdle /\ PipeIdle /\ IngestIdle

Next == ReadLine \/ FinishEmpty \/ FinishWrite

Spec == Init /\ [][Next]_vars

(***************************************************************************)
(* The text functions applied to texts put together from fragments.        *)
(***************************************************************************)
\* one more fragment of F is appended to the text under construction
AppendFragment(F) ==
    /\ op = ""
    /\ nfrag < MaxFrags
    /\ \E f \in F : text' = text \o f
    /\ nfrag' = nfrag + 1
    /\ UNCHANGED <<op, arg, result, result2>>
    /\ UNCHANGED pipeVars
    /\ UNCHANGED ingestVars

\* "(cid:1)", "(cid:", "2)", "ם", ")1:dic("
CidFragments ==
    { CID_MARKER, CID_PREFIX, <<50, RPAREN>>, <<1501>>,
      <<RPAREN, 49, COLON, 100, 105, 99, LPAREN>> }

AppendCidFragment == AppendFragment(CidFragments)

\* process_text_field(text, cid_threshold)
CallProcessTextField ==
    /\ op = ""
    /\ \E cid_threshold \in 0..MaxThreshold :
          /\ arg' = cid_threshold
          /\ result' = process_text_field(text, cid_threshold)
    /\ op' = "process_text_field"
    /\ UNCHANGED <<text, nfrag, result2>>
    /\ UNCHANGED pipeVars
    /\ UNCHANGED ingestVars

NextCid == AppendCidFragment \/ CallProcessTextField

SpecCid == Init /\ [][NextCid]_vars

\* "םכ ", "םא ", "א א א ", "אב", "ם", " "
WordFragments ==
    { <<1501, 1499, SPACE>>, <<1501, ALEF, SPACE>>,
      <<ALEF, SPACE, ALEF, SPACE, ALEF, SPACE>>,
      <<ALEF, 1489>>, <<1501>>, <<SPACE>> }

AppendWordFragment == AppendFragment(WordFragments)

\* detect_and_fix_reversed_hebrew(text), and the same applied to its result
CallDetectAndFix ==
    /\ op = ""
    /\ op' = "detect_and_fix_reversed_hebrew"
    /\ result' = Some(detect_and_fix_reversed_hebrew(text))
    /\ result2' = Some(detect_and_fix_reversed_hebrew(
                           detect_and_fix_reversed_hebrew(text)))
    /\ UNCHANGED <<text, nfrag, arg>>
    /\ UNCHANGED pipeVars
    /\ UNCHANGED ingestVars

NextRev == AppendWordFragment \/ CallDetectAndFix

SpecRev == Init /\ [][NextRev]_vars

\* "a", "é", U+0081, "א", "€", "×"
EncodingFragments == { <<97>>, <<233>>, <<129>>, <<ALEF>>, <<8364>>, <<215>> }

AppendEncodingFragment == AppendFragment(EncodingFragments)

\* fix_hebrew_encoding(text)
CallFixHebrewEncoding ==
    /\ op = ""
    /\ op' = "fix_hebrew_encoding"
    /\ result' = Some(fix_hebrew_encoding(text))
    /\ UNCHANGED <<text, nfrag, arg, result2>>
    /\ UNCHANGED pipeVars
    /\ UNCHANGED ingestVars

NextEnc == AppendEncodingFragment \/ CallFixHebrewEncoding

SpecEnc == Init /\ [][NextEnc]_vars

\* a line break, "א", "ב", "a"
LineFragments == { <<NL>>, <<ALEF>>, <<1489>>, <<97>> }

AppendLineFragment == AppendFragment(LineFragments)

\* _pre_process_text(text), and the same applied to its result
CallPreProcessText ==
    /\ op = ""
    /\ op' = "_pre_process_text"
    /\ result' = Some(pre_process_text(text))
    /\ result2' = Some(pre_process_text(pre_process_text(text)))
    /\ UNCHANGED <<text, nfrag, arg>>
    /\ UNCHANGED pipeVars
    /\ UNCHANGED ingestVars

NextJoin == AppendLineFragment \/ CallPreProcessText

SpecJoin == Init /\ [][NextJoin]_vars

(***************************************************************************)
(* Claims about process_text_field (specification SpecCid).                *)
(***************************************************************************)
Called(name) == op = name

\* C1: a text with more than cid_threshold occurrences of the marker pattern
\* (cid:<digits>) is rejected: process_text_field returns None.
C1_RejectsAboveThreshold ==
    (Called("process_text_field") /\ MarkerCount(text) > arg)
        => result = NoneValue

\* a text with exactly cid_threshold + 1 markers was rejected
C1_Witness ==
    /\ Called("process_text_field")
    /\ MarkerCount(text) = arg + 1
    /\ arg >= 1
    /\ result = NoneValue

\* C2: a text with at most cid_threshold occurrences of the marker pattern is
\* not rejected, and the returned text contains no occurrence of the pattern.
C2_CleanBelowThreshold ==
    (Called("process_text_field") /\ MarkerCount(text) <= arg)
        => (result # NoneValue /\ MarkerCount(result.val) = 0)

(***************************************************************************)
(* Claims about detect_and_fix_reversed_hebrew (specification SpecRev).    *)
(***************************************************************************)
\* the tokens of a text: the maximal runs of Hebrew letters, by first position
TokenStarts(t) ==
    {i \in 1..Len(t) :
        IsHebrewLetter(t[i]) /\ (i = 1 \/ ~IsHebrewLetter(t[i - 1]))}

TokenEnd(t, i) ==
    Max({e \in i..Len(t) : \A j \in i..e : IsHebrewLetter(t[j])})

\* tokens of length > 1 starting with a final form, plus tokens of length > 1
\* ending with a letter that has a final form
RuleEvidence(t) ==
    Cardinality({i \in TokenStarts(t) :
                    TokenEnd(t, i) > i /\ t[i] \in FINAL_LETTERS})
    + Cardinality({i \in TokenStarts(t) :
                    TokenEnd(t, i) > i /\ t[TokenEnd(t, i)] \in NON_FINAL_EQUIVALENTS})

\* (evidence >= 3 and ratio > 0.15) or ratio > 0.4, over all the tokens
RuleSaysReversed(t) ==
    LET evidence == RuleEvidence(t)
        tokens   == Cardinality(TokenStarts(t))
    IN  /\ tokens > 0
        /\ \/ evidence >= 3 /\ 100 * evidence > 15 * tokens
           \/ 10 * evidence > 4 * tokens

\* r is t read backwards, character by character
IsMirror(r, t) ==
    /\ Len(r) = Len(t)
    /\ \A k \in 1..Len(t) : r[k] = t[Len(t) + 1 - k]

\* C7: detect_and_fix_reversed_hebrew returns the character-reversed string
\* exactly when the stated rule decides "reversed", and the text unchanged
\* otherwise (also when there is no token).
C7_DecisionRule ==
    Called("detect_and_fix_reversed_hebrew") =>
        IF RuleSaysReversed(text)
        THEN IsMirror(result.val, text)
        ELSE result.val = text

\* the first clause alone decided: evidence >= 3 with a ratio of at most 0.4,
\* and the text came back reversed
C7_Witness ==
    /\ Called("detect_and_fix_reversed_hebrew")
    /\ RuleEvidence(text) >= 3
    /\ 10 * RuleEvidence(text) <= 4 * Cardinality(TokenStarts(text))
    /\ result.val # text
    /\ IsMirror(result.val, text)

\* C8 as stated: whenever the repair fires on a text, applying the repair to
\* its own output returns the original text.
C8_InvolutionWhenFired ==
    (Called("detect_and_fix_reversed_hebrew") /\ RuleSaysReversed(text))
        => result2.val = text

\* C8 as amended: when the repair fires its output is the mirror image of the
\* text, and the second application returns either that output unchanged or
\* the original text, the latter only if the mirror image triggers the rule
\* too (or the text is a palindrome).
C8_SecondApplication ==
    (Called("detect_and_fix_reversed_hebrew") /\ RuleSaysReversed(text)) =>
        /\ IsMirror(result.val, text)
        /\ result2.val = text \/ result2.val = result.val
        /\ result2.val = text <=> (RuleSaysReversed(result.val) \/ result.val = text)

\* the repair fired and the second application did not bring the text back
C8_Witness ==
    /\ Called("detect_and_fix_reversed_hebrew")
    /\ RuleSaysReversed(text)
    /\ result.val # text
    /\ result2.val = result.val

(***************************************************************************)
(* Claims about fix_hebrew_encoding (specification SpecEnc).               *)
(***************************************************************************)
\* C9 as stated: fix_hebrew_encoding is the identity on every text with a
\* character windows-1255 cannot represent.
C9_IdentityOutsideCp1255 ==
    (Called("fix_hebrew_encoding")
        /\ \E k \in 1..Len(text) : ~Cp1255Representable(text[k]))
        => result.val = text

\* C9 as amended: fix_hebrew_encoding is the identity on every text with a
\* character latin-1 cannot encode (a code point above U+00FF) or whose
\* latin-1 byte windows-1255 leaves unassigned.
C9_IdentityWhenRoundTripFails ==
    (Called("fix_hebrew_encoding")
        /\ \E k \in 1..Len(text) : text[k] > 255 \/ text[k] \in Cp1255Undefined)
        => result.val = text

\* the round trip failed on a text it would otherwise have rewritten
C9_Witness ==
    /\ Called("fix_hebrew_encoding")
    /\ \E k \in 1..Len(text) : text[k] \in Cp1255Undefined
    /\ \E k \in 1..Len(text) : text[k] = 233
    /\ result.val = text

(***************************************************************************)
(* Claims about _pre_process_text (specification SpecJoin).                *)
(***************************************************************************)
\* a line break of s between two Hebrew letters
BreakBetweenHebrew(s) ==
    \E k \in 2..(Len(s) - 1) :
        s[k] = NL /\ IsHebrewLetter(s[k - 1]) /\ IsHebrewLetter(s[k + 1])

\* C10: line joining is idempotent, and after one application no line break
\* is left between two Hebrew letters.
C10_JoinIdempotent ==
    Called("_pre_process_text") =>
        /\ result2 = result
        /\ ~BreakBetweenHebrew(result.val)

\* breaks were joined next to a break that had to stay
C10_Witness ==
    /\ Called("_pre_process_text")
    /\ BreakBetweenHebrew(text)
    /\ \E k \in 1..Len(result.val) : result.val[k] = NL
    /\ Len(result.val) < Len(text)

(***************************************************************************)
(* Claims about convert_jsonl_to_parquet (specification Spec).             *)
(***************************************************************************)
Written == pc = "written"

\* the cleaned text of accepted record k, and of emitted row n
AcceptedText(k) == all_records[k]["text"].val

EmittedText(n) == df[n].row["text"].val

NonBlank(s) == \E k \in 1..Len(s) : ~IsSpace(s[k])

\* the lines whose record was accepted, in input order: accepted record k
\* was made from AcceptedInput[k]
AcceptedLine(line) ==
    /\ line.kind = "object"
    /\ ProcessTextValue(GetText(line.rec)) # NoneValue

AcceptedInput == SelectSeq(input, AcceptedLine)

\* the emitted rows are exactly the accepted records K, unchanged, in order
EmitsExactly(K) ==
    /\ {df[n].idx : n \in 1..Len(df)} = K
    /\ \A n \in 1..Len(df) : df[n].row = all_records[df[n].idx]
    /\ \A n, m \in 1..Len(df) : n < m => df[n].idx < df[m].idx

\* the first accepted record of each distinct cleaned text
FirstOfText ==
    {k \in 1..Len(all_records) :
        \A j \in 1..(k - 1) : AcceptedText(j) # AcceptedText(k)}

\* C3 as stated: the output holds exactly one record for each distinct cleaned
\* text of the accepted records, the first one in input order, and the kept
\* records retain their input order.
C3_FirstOfEachText == Written => EmitsExactly(FirstOfText)

\* C3 as amended: the same, for each distinct cleaned text that is not empty
\* after stripping; records whose text is blank are dropped.
C3_FirstOfEachNonBlankText ==
    Written => EmitsExactly({k \in FirstOfText : NonBlank(AcceptedText(k))})

\* a later record with the text of an earlier one was dropped, and a record
\* accepted between them was kept
C3_Witness ==
    /\ Written
    /\ Len(df) >= 2
    /\ \E i, j, k \in 1..Len(all_records) :
          /\ i < j /\ j < k
          /\ AcceptedText(i) = AcceptedText(k)
          /\ AcceptedText(i) # AcceptedText(j)
          /\ all_records[i]["source"] # all_records[k]["source"]
          /\ \E n \in 1..Len(df) : df[n].idx = i
          /\ \E n \in 1..Len(df) : df[n].idx = j
          /\ \A n \in 1..Len(df) : df[n].idx # k

\* C4 as stated: every emitted text is non-empty and stripped, so that records
\* whose cleaned texts differ only in surrounding whitespace are duplicates.
C4_EmittedTextStripped ==
    Written =>
        /\ \A n \in 1..Len(df) :
              EmittedText(n) # <<>> /\ Strip(EmittedText(n)) = EmittedText(n)
        /\ \A n, m \in 1..Len(df) :
              n # m => Strip(EmittedText(n)) # Strip(EmittedText(m))

\* C4 as amended: every emitted text has a character that is no whitespace;
\* it is emitted as cleaned, not stripped, and only exactly equal texts are
\* duplicates: every non-blank cleaned text of an accepted record is emitted
\* once, whatever whitespace surrounds it.
C4_EmittedTextNonBlank ==
    Written =>
        /\ \A n \in 1..Len(df) : NonBlank(EmittedText(n))
        /\ \A n, m \in 1..Len(df) : n # m => EmittedText(n) # EmittedText(m)
        /\ \A k \in 1..Len(all_records) :
              NonBlank(AcceptedText(k)) =>
                  \E n \in 1..Len(df) : EmittedText(n) = AcceptedText(k)

\* a blank text was dropped while two texts that differ only in surrounding
\* whitespace were both emitted
C4_Witness ==
    /\ Written
    /\ \E k \in 1..Len(all_records) : ~NonBlank(AcceptedText(k))
    /\ \E n, m \in 1..Len(df) :
          /\ EmittedText(n) # EmittedText(m)
          /\ Strip(EmittedText(n)) = Strip(EmittedText(m))

\* the strings held by a record: its str values and the str values of its
\* dict values
StringValues(row) ==
    {row[key].val : key \in {k \in DOMAIN row : row[k].type = "str"}}
    \cup UNION { {row[key].val[f].val :
                     f \in {g \in DOMAIN row[key].val : row[key].val[g].type = "str"}} :
                 key \in {k \in DOMAIN row : row[k].type = "dict"} }

\* C5: no emitted record holds a match of the email pattern or of the phone
\* pattern in its text, its source or a string field of its metadata.
C5_NoPiiInAnyString ==
    Written =>
        \A n \in 1..Len(df) :
            \A v \in StringValues(df[n].row) : ~HasEmail(v) /\ ~HasPhone(v)

\* C6 as stated: the source of every emitted record is exactly the source of
\* the input record it was made from.
C6_SourceNeverRewritten ==
    Written =>
        \A n \in 1..Len(df) :
            df[n].row["source"] = AcceptedInput[df[n].idx].rec["source"]

\* C6 as amended: the source of an emitted record is the source of its input
\* record exactly when that source holds no match of the email or the phone
\* pattern; a source with a match is emitted with the match redacted.
C6_SourceKeptUnlessPii ==
    Written =>
        /\ Len(AcceptedInput) = Len(all_records)
        /\ \A n \in 1..Len(df) :
              LET before == AcceptedInput[df[n].idx].rec["source"].val
                  after  == df[n].row["source"].val
              IN  /\ (after = before) <=> (~HasEmail(before) /\ ~HasPhone(before))
                  /\ ~HasEmail(after) /\ ~HasPhone(after)

\* a source without a match was emitted as it was, beside one that was redacted
C6_Witness ==
    /\ Written
    /\ \E n \in 1..Len(df) :
          /\ HasEmail(AcceptedInput[df[n].idx].rec["source"].val)
          /\ df[n].row["source"].val = EMAIL_REMOVED \o <<47, 115>>
    /\ \E n \in 1..Len(df) :
          df[n].row["source"] = AcceptedInput[df[n].idx].rec["source"]

\* the input lines that the corruption filter rejects: a str text with more
\* (cid:NN) markers than the threshold
CorruptedLine(line) ==
    /\ line.kind = "object"
    /\ GetText(line.rec).type = "str"
    /\ MarkerCount(GetText(line.rec).val) > DEFAULT_CID_THRESHOLD

\* C11 as stated: after any batch the skipped counter equals the number of
\* input records rejected by the corruption filter and counts nothing else
\* (no record with a missing or null text, no malformed line), and no counted
\* record is among the accepted ones.
C11_SkippedCountsCorruptionOnly ==
    /\ skipped_count = Len(SelectSeq(input, CorruptedLine))
    /\ \A k \in 1..Len(AcceptedInput) : ~CorruptedLine(AcceptedInput[k])

\* the lines that raise inside the try block: unparsable JSON, or JSON that is
\* no object
BadLine(line) == line.kind # "object"

GoodLine(line) == ~BadLine(line)

\* (all_records, skipped_count) after a batch made of the given lines
RECURSIVE AfterLines(_)
AfterLines(lines) ==
    IF lines = <<>>
    THEN [records |-> <<>>, skipped |-> 0]
    ELSE LET before == AfterLines(SubSeq(lines, 1, Len(lines) - 1))
         IN  ProcessLine(lines[Len(lines)], before.records, before.skipped)

PiiFragments == { USER_EMAIL, USER_PHONE, <<ALEF>>, <<SPACE>>, <<49>> }

AppendPiiFragment == AppendFragment(PiiFragments)

\* anonymize_record({"value": text})["value"]
CallAnonymizeRecord ==
    /\ op = ""
    /\ op' = "anonymize_record"
    /\ result' = anonymize_record([value |-> Some(text)])["value"]
    /\ UNCHANGED <<text, nfrag, arg, result2>>
    /\ UNCHANGED pipeVars
    /\ UNCHANGED ingestVars

NextPii == AppendPiiFragment \/ CallAnonymizeRecord

SpecPii == Init /\ [][NextPii]_vars

\* pat in s
Contains(s, pat) == \E i \in 1..Len(s) : OccursAt(s, pat, i)

\* C13 as stated: for every str field value that contains user@example.com,
\* the output of anonymize_record contains [EMAIL_REMOVED] and no longer
\* contains user@example.com; for every value that contains 0501234567 the
\* output contains [PHONE_REMOVED]; whatever characters surround the substring.
C13_RedactsWhateverSurrounds ==
    Called("anonymize_record") =>
        /\ Contains(text, USER_EMAIL) =>
              /\ Contains(result.val, EMAIL_REMOVED)
              /\ ~Contains(result.val, USER_EMAIL)
        /\ Contains(text, USER_PHONE) => Contains(result.val, PHONE_REMOVED)

(***************************************************************************)
(* create_dataset_markdown.py: sharded, resumable ingestion (SpecIngest).  *)
(* The output directory is a function from the number field of a part      *)
(* file's name to the lines of the file.                                   *)
(***************************************************************************)
\* the files of the source tree, by relative path
SourceFiles == 1..MaxFiles

\* the files that process_single_file ignores by name or extension
IgnoredFiles == {1}

\* the outcomes of process_single_file(f): TRUE for a record, FALSE for None
\* (ignored, empty, or a conversion that failed this time)
ProcessOutcomes(f) == IF f \in IgnoredFiles THEN {FALSE} ELSE {TRUE, FALSE}

\* json.dumps(result) + '\n' for the record of source file f
RecordLine(f) == [kind |-> "record", source |-> f]

\* the same line cut short by an interrupted write: between two characters
\* (no valid JSON), or inside the bytes of a character (no valid UTF-8)
TornLine(f) == [kind |-> "torn", source |-> f]

TornCharLine(f) == [kind |-> "tornchar", source |-> f]

\* output_file_handle is None
NoHandle == <<>>

\* the decimal digits of n
RECURSIVE Digits(_)
Digits(n) == IF n < 10 THEN <<48 + n>> ELSE Digits(n \div 10) \o <<48 + (n % 10)>>

\* f"{current_part_num:05d}"
PartName(n) ==
    LET d == Digits(n)
    IN  IF Len(d) >= 5 THEN d ELSE Repeat(<<48>>, 5 - Len(d)) \o d

\* int(match.group(1))
RECURSIVE PartNum(_)
PartNum(name) ==
    IF name = <<>> THEN 0
    ELSE 10 * PartNum(SubSeq(name, 1, Len(name) - 1)) + (name[Len(name)] - 48)

\* find_last_part_and_processed_files: the largest part number, 0 if none
LastPartNum(dir) ==
    IF DOMAIN dir = {} THEN 0 ELSE Max({PartNum(name) : name \in DOMAIN dir})

\* find_last_part_and_processed_files: the 'source' of every line that
\* json.loads accepts; a line that raises JSONDecodeError is passed over
ProcessedSources(dir) ==
    UNION { { dir[name][k].source :
                k \in {j \in 1..Len(dir[name]) : dir[name][j].kind = "record"} } :
            name \in DOMAIN dir }

\* find_last_part_and_processed_files: reading a line that is no valid UTF-8
\* raises UnicodeDecodeError, which no except clause catches
ScanRaises(dir) ==
    \E name \in DOMAIN dir :
        \E k \in 1..Len(dir[name]) : dir[name][k].kind = "tornchar"

\* open(part_filename, 'w'): the file is created, or emptied if it exists
OpenForWriting(dir, name) ==
    [n \in DOMAIN dir \cup {name} |-> IF n = name THEN <<>> ELSE dir[n]]

\* a slip: the part is rolled over one record late
NeedsNewPartLate(handle, count) == handle = NoHandle \/ count > CHUNK_SIZE

\* output_file_handle is None or count_in_current_chunk >= CHUNK_SIZE
NeedsNewPart(handle, count) == handle = NoHandle \/ count >= CHUNK_SIZE

\* what an interrupted run can leave of the lines written to the open part:
\* all of them (the finally clause closes the file), or the lines that were
\* flushed, followed or not by a piece of the next one
InterruptedContents(lines) ==
    {lines}
    \cup {SubSeq(lines, 1, k) : k \in 0..(Len(lines) - 1)}
    \cup {Append(SubSeq(lines, 1, k), TornLine(lines[k + 1].source)) :
             k \in 0..(Len(lines) - 1)}
    \cup {Append(SubSeq(lines, 1, k), TornCharLine(lines[k + 1].source)) :
             k \in 0..(Len(lines) - 1)}

\* main() up to the processing loop: the existing parts are scanned and the
\* files of the source tree that are not recorded in them are submitted
StartRun ==
    /\ mainpc # "running"
    /\ ~ScanRaises(parts)
    /\ last_part' = LastPartNum(parts)
    /\ already_processed' = ProcessedSources(parts)
    /\ files_to_process' = SourceFiles \ ProcessedSources(parts)
    /\ pending' = SourceFiles \ ProcessedSources(parts)
    /\ current_part_num' = LastPartNum(parts)
    /\ count_in_current_chunk' = 0
    /\ output_file_handle' = NoHandle
    /\ mainpc' = "running"
    /\ UNCHANGED parts
    /\ UNCHANGED <<textVars, pipeVars>>

\* main() when the scan of the existing parts raises: the run ends there
StartRunAborts ==
    /\ mainpc # "running"
    /\ ScanRaises(parts)
    /\ mainpc' = "aborted"
    /\ UNCHANGED <<parts, last_part, already_processed, files_to_process,
                   pending, current_part_num, count_in_current_chunk,
                   output_file_handle>>
    /\ UNCHANGED <<textVars, pipeVars>>

\* one iteration of the loop over pool.imap_unordered: the result of some
\* submitted file arrives, and a record is written to the current part
HandleResult ==
    /\ mainpc = "running"
    /\ \E f \in pending :
          \E ok \in ProcessOutcomes(f) :
             /\ pending' = pending \ {f}
             /\ IF ok
                THEN LET new == NeedsNewPart(output_file_handle,
                                             count_in_current_chunk)
                         num == IF new THEN current_part_num + 1
                                ELSE current_part_num
                         count == IF new THEN 0 ELSE count_in_current_chunk
                         handle == IF new THEN PartName(num)
                                   ELSE output_file_handle
                         dir == IF new THEN OpenForWriting(parts, handle)
                                ELSE parts
                     IN  /\ num <= MaxParts
                         /\ current_part_num' = num
                         /\ output_file_handle' = handle
                         /\ parts' = [dir EXCEPT
                                         ![handle] = Append(@, RecordLine(f))]
                         /\ count_in_current_chunk' = count + 1
                ELSE UNCHANGED <<parts, current_part_num,
                                 count_in_current_chunk, output_file_handle>>
    /\ UNCHANGED <<mainpc, last_part, already_processed, files_to_process>>
    /\ UNCHANGED <<textVars, pipeVars>>

\* the loop is over: the finally clause closes the last part
Finish ==
    /\ mainpc = "running"
    /\ pending = {}
    /\ output_file_handle' = NoHandle
    /\ mainpc' = "done"
    /\ UNCHANGED <<parts, last_part, already_processed, files_to_process,
                   pending, current_part_num, count_in_current_chunk>>
    /\ UNCHANGED <<textVars, pipeVars>>

\* the run is interrupted in the loop
Interrupt ==
    /\ mainpc = "running"
    /\ IF output_file_handle = NoHandle
       THEN UNCHANGED parts
       ELSE \E lines \in InterruptedContents(parts[output_file_handle]) :
               parts' = [parts EXCEPT ![output_file_handle] = lines]
    /\ output_file_handle' = NoHandle
    /\ mainpc' = "interrupted"
    /\ UNCHANGED <<last_part, already_processed, files_to_process, pending,
                   current_part_num, count_in_current_chunk>>
    /\ UNCHANGED <<textVars, pipeVars>>

NextIngest ==
    StartRun \/ StartRunAborts \/ HandleResult \/ Finish \/ Interrupt

SpecIngest == Init /\ [][NextIngest]_vars

(***************************************************************************)
(* Claims about main() of create_dataset_markdown.py (SpecIngest).         *)
(***************************************************************************)
\* the highest part number in the output directory, 0 if there is no part
HighestExisting ==
    CHOOSE n \in 0..MaxParts :
        /\ n = 0 \/ \E name \in DOMAIN parts : PartNum(name) = n
        /\ \A name \in DOMAIN parts : PartNum(name) <= n

\* this step opens a part file for writing
OpensPart ==
    /\ output_file_handle' # output_file_handle
    /\ output_file_handle' # NoHandle

\* C14: a run never opens for writing a part file that exists; the parts it
\* creates are numbered consecutively from the highest existing number + 1;
\* a part is opened only when none is open or the current one holds
\* CHUNK_SIZE records; and no part file ever holds more than CHUNK_SIZE
\* records.
C14_Sharding ==
    /\ [](\A name \in DOMAIN parts : Len(parts[name]) <= CHUNK_SIZE)
    /\ [][OpensPart =>
            /\ output_file_handle' \notin DOMAIN parts
            /\ output_file_handle' =
                  PartName(1 + (IF output_file_handle = NoHandle
                                THEN HighestExisting
                                ELSE PartNum(output_file_handle)))
            /\ \/ output_file_handle = NoHandle
               \/ Len(parts[output_file_handle]) >= CHUNK_SIZE]_vars

\* a run that found a part in the output directory has filled a new part and
\* opened the next one
C14_Witness ==
    /\ mainpc = "running"
    /\ last_part >= 1
    /\ PartName(last_part) \in DOMAIN parts
    /\ current_part_num = last_part + 2
    /\ output_file_handle = PartName(current_part_num)
    /\ Len(parts[PartName(last_part + 1)]) = CHUNK_SIZE
    /\ Len(parts[output_file_handle]) = 1

\* the positions of the valid lines of the part files: <<name, k>>
ValidLines ==
    UNION { { <<name, k>> :
                k \in {j \in 1..Len(parts[name]) : parts[name][j].kind = "record"} } :
            name \in DOMAIN parts }

\* the source files recorded in a valid line of some part file
RecordedSources == {parts[p[1]][p[2]].source : p \in ValidLines}

\* no source value appears in more than one record across all part files
NoSourceTwice ==
    \A p, q \in ValidLines :
        parts[p[1]][p[2]].source = parts[q[1]][q[2]].source => p = q

\* this step is the beginning of a run of main()
RunBegins == StartRun \/ StartRunAborts

\* C15 as stated: over any sequence of runs, interrupted ones included, every
\* run submits exactly the source files that are not recorded in a valid line
\* of an existing part file (a recorded file is never submitted again, a file
\* that produced no record is submitted again on every later run), and no
\* source value appears in more than one record across all part files.
C15_Resumable ==
    /\ []NoSourceTwice
    /\ [][RunBegins =>
            /\ mainpc' = "running"
            /\ files_to_process' = SourceFiles \ RecordedSources
            /\ pending' = files_to_process']_vars

=============================================================================
